---- MODULE Spec2Model ----
(***************************************************************************)
(* A model of package postgrestest (postgrestest.go): NewPostgresTest,     *)
(* which provisions a scratch database on a base Postgres server and       *)
(* registers its teardown with the test framework, and                     *)
(* AlterTableSequences, which restarts every sequence of a database at a   *)
(* random value.                                                           *)
(*                                                                         *)
(* Strings are sequences of one-character strings, so that formatting      *)
(* (fmt.Sprintf, strings.ToLower) and URL handling (url.Parse, URL.String) *)
(* are computed character by character.                                    *)
(***************************************************************************)
EXTENDS Integers, Sequences, FiniteSets, TLC

VARIABLES
    env,            \* value of TESTING_POSTGRES_TEST in the process environment
    tests,          \* the tests (goroutines) of this run
    args,           \* args[t]: the Option list test t passes to NewPostgresTest
    pc,             \* pc[t]: position of test t
    opts,           \* opts[t]: *defaultOpts of t's invocation (NoOpts before the call)
    conns,          \* conns[t]: the *sql.DB handles opened on behalf of t, in order
    databaseName,   \* databaseName[t]: the name createTestingDatabase returned
    createCalls,    \* createCalls[t]: names passed to the create behaviour
    deleteCalls,    \* deleteCalls[t]: delete behaviour invocations of t
    cleanups,       \* cleanups[t]: callbacks registered with t.Cleanup
    cleanupRuns,    \* cleanupRuns[t]: callbacks the framework has run
    failed,         \* failed[t]: t.Errorf was called (the test is marked failed)
    haltedAt,       \* haltedAt[t]: the step whose require.NoError called t.FailNow
    result,         \* result[t]: the string NewPostgresTest returned
    envRead,        \* envRead[t]: what os.Getenv returned to t's invocation
    sessions,       \* sessions[t]: the test body left a session open on its database
    server,         \* databases on the base server: records [name, owner]
    dropped,        \* databases removed from the server: records [name, owner, by]
    catalog,        \* AlterTableSequences: sequences in pg_class (relkind 'S')
    seqValue,       \* seqValue[s]: value sequence s reports
    apc,            \* position of AlterTableSequences
    rows,           \* rows not yet returned by rows.Next()
    sequences,      \* the local slice "sequences"
    restarts,       \* ALTER SEQUENCE statements sent: records [seq, value, ok]
    afailed,        \* the test calling AlterTableSequences was failed
    aerror          \* the database error AlterTableSequences met, or "none"

pvars == <<env, tests, args, pc, opts, conns, databaseName, createCalls, deleteCalls,
           cleanups, cleanupRuns, failed, haltedAt, result, envRead, sessions, server, dropped>>
avars == <<catalog, seqValue, apc, rows, sequences, restarts, afailed, aerror>>
vars == <<pvars, avars>>

----------------------------------------------------------------------------
(* Bounds *)

\* parallel tests in the concurrent specification
NumTests == 2
\* options passed to one call of NewPostgresTest
MaxOpts == 2
\* distinct outcomes of rand.Read
MaxSeeds == 2
\* sequences in the catalog
MaxSeqs == 3

----------------------------------------------------------------------------
(* Characters and strings *)

Digits == <<"0","1","2","3","4","5","6","7","8","9">>
LowerLetters == <<"a","b","c","d","e","f","g","h","i","j","k","l","m",
                  "n","o","p","q","r","s","t","u","v","w","x","y","z">>
UpperLetters == <<"A","B","C","D","E","F","G","H","I","J","K","L","M",
                  "N","O","P","Q","R","S","T","U","V","W","X","Y","Z">>
Range(s) == {s[i] : i \in 1..Len(s)}

\* strings.HasPrefix
HasPrefix(s, p) == Len(s) >= Len(p) /\ SubSeq(s, 1, Len(p)) = p

\* strings.Index for a one-character separator: 0 when absent
IndexOf(s, c) == IF \E i \in 1..Len(s) : s[i] = c
                 THEN CHOOSE i \in 1..Len(s) : s[i] = c /\ \A j \in 1..(i-1) : s[j] # c
                 ELSE 0

\* strings.ToLower on one character
LowerChar(c) == IF \E i \in 1..26 : UpperLetters[i] = c
                THEN LowerLetters[CHOOSE i \in 1..26 : UpperLetters[i] = c]
                ELSE c

\* strings.ToLower
ToLower(s) == [i \in 1..Len(s) |-> LowerChar(s[i])]

\* the digits of fmt's %x
HexDigits == <<"0","1","2","3","4","5","6","7","8","9","a","b","c","d","e","f">>

\* fmt.Sprintf("%x", b) for b []byte: two lower-case hex digits per byte
SprintfHex(b) == [i \in 1..(2 * Len(b)) |->
                    IF i % 2 = 1 THEN HexDigits[(b[(i + 1) \div 2] \div 16) + 1]
                                 ELSE HexDigits[(b[i \div 2] % 16) + 1]]

----------------------------------------------------------------------------
(* net/url, for the addresses this package meets: connection strings in    *)
(* URL form (scheme://userinfo@host:port/path?query) and in key=value      *)
(* form. No address here holds a fragment or a character that URL.String   *)
(* would escape.                                                           *)

IsLetter(c) == c \in Range(LowerLetters) \cup Range(UpperLetters)
IsDigit(c) == c \in Range(Digits)

\* url.getScheme: the index of the first character that cannot continue a scheme
\* (0 when the whole string could be one)
SchemeStop(raw) ==
    LET stops(i) == ~ (IsLetter(raw[i]) \/ (i > 1 /\ (IsDigit(raw[i]) \/ raw[i] \in {"+", "-", "."})))
    IN IF \E i \in 1..Len(raw) : stops(i)
       THEN CHOOSE i \in 1..Len(raw) : stops(i) /\ \A j \in 1..(i-1) : ~ stops(j)
       ELSE 0

\* strings.LastIndex for a one-character separator: 0 when absent
LastIndexOf(s, c) == IF \E i \in 1..Len(s) : s[i] = c
                     THEN CHOOSE i \in 1..Len(s) : s[i] = c /\ \A j \in (i+1)..Len(s) : s[j] # c
                     ELSE 0

\* url.validOptionalPort on the host of an authority
ValidPort(host) ==
    LET i == LastIndexOf(host, ":")
    IN i = 0 \/ \A j \in (i+1)..Len(host) : IsDigit(host[j])

NoURL == [ok |-> FALSE, scheme |-> <<>>, opaque |-> <<>>, hasUser |-> FALSE, user |-> <<>>,
          host |-> <<>>, path |-> <<>>, rawQuery |-> <<>>]

\* url.Parse
Parse(raw) ==
    LET stop == SchemeStop(raw)
        hasScheme == stop > 1 /\ raw[stop] = ":"
        scheme == IF hasScheme THEN ToLower(SubSeq(raw, 1, stop - 1)) ELSE <<>>
        afterScheme == IF hasScheme THEN SubSeq(raw, stop + 1, Len(raw)) ELSE raw
        q == IndexOf(afterScheme, "?")
        rest == IF q = 0 THEN afterScheme ELSE SubSeq(afterScheme, 1, q - 1)
        rawQuery == IF q = 0 THEN <<>> ELSE SubSeq(afterScheme, q + 1, Len(afterScheme))
        slash == IndexOf(rest, "/")
        firstSegment == IF slash = 0 THEN rest ELSE SubSeq(rest, 1, slash - 1)
        hasAuthority == HasPrefix(rest, <<"/", "/">>)
                        /\ (hasScheme \/ ~ HasPrefix(rest, <<"/", "/", "/">>))
        afterSlashes == SubSeq(rest, 3, Len(rest))
        pathAt == IndexOf(afterSlashes, "/")
        authority == IF pathAt = 0 THEN afterSlashes ELSE SubSeq(afterSlashes, 1, pathAt - 1)
        at == LastIndexOf(authority, "@")
        host == SubSeq(authority, at + 1, Len(authority))
        path == IF ~ hasAuthority THEN rest
                ELSE IF pathAt = 0 THEN <<>> ELSE SubSeq(afterSlashes, pathAt, Len(afterSlashes))
    IN IF stop = 1 /\ raw[1] = ":" THEN NoURL                  \* missing protocol scheme
       ELSE IF ~ HasPrefix(rest, <<"/">>) /\ hasScheme
            THEN [NoURL EXCEPT !.ok = TRUE, !.scheme = scheme, !.opaque = rest,
                               !.rawQuery = rawQuery]
       ELSE IF ~ HasPrefix(rest, <<"/">>) /\ ":" \in Range(firstSegment)
            THEN NoURL                                         \* colon in first path segment
       ELSE IF hasAuthority /\ ~ ValidPort(host) THEN NoURL    \* invalid port after host
       ELSE [ok |-> TRUE, scheme |-> scheme, opaque |-> <<>>,
             hasUser |-> hasAuthority /\ at > 0,
             user |-> IF hasAuthority /\ at > 0 THEN SubSeq(authority, 1, at - 1) ELSE <<>>,
             host |-> IF hasAuthority THEN host ELSE <<>>,
             path |-> path, rawQuery |-> rawQuery]

\* (*URL).String
String(u) ==
    LET schemePart == IF u.scheme # <<>> THEN u.scheme \o <<":">> ELSE <<>>
        authorityPart ==
            IF u.scheme # <<>> \/ u.host # <<>> \/ u.hasUser
            THEN (IF u.host # <<>> \/ u.path # <<>> \/ u.hasUser THEN <<"/", "/">> ELSE <<>>)
                 \o (IF u.hasUser THEN u.user \o <<"@">> ELSE <<>>)
                 \o u.host
            ELSE <<>>
        slash == IndexOf(u.path, "/")
        firstSegment == IF slash = 0 THEN u.path ELSE SubSeq(u.path, 1, slash - 1)
        pathPart ==
            (IF u.path # <<>> /\ u.path[1] # "/" /\ u.host # <<>> THEN <<"/">>
             ELSE IF schemePart \o authorityPart = <<>> /\ ":" \in Range(firstSegment)
                  THEN <<".", "/">>
             ELSE <<>>)
            \o u.path
        queryPart == IF u.rawQuery # <<>> THEN <<"?">> \o u.rawQuery ELSE <<>>
    IN IF u.opaque # <<>> THEN schemePart \o u.opaque \o queryPart
       ELSE schemePart \o authorityPart \o pathPart \o queryPart

----------------------------------------------------------------------------
(* Addresses, options and behaviours *)

\* the hardcoded base address of NewPostgresTest
DefaultAddress == <<"p","o","s","t","g","r","e","s",":","/","/","p","o","s","t","g","r","e","s",":","r","o","o","t","@","l","o","c","a","l","h","o","s","t",":","5","5","4","3","2">>
\* a value of TESTING_POSTGRES_TEST: URL form, with a path and a query
EnvAddress == <<"p","o","s","t","g","r","e","s",":","/","/","e",":","1","/","b","?","s","=","d">>
\* an address given with WithBaseAddress: URL form, with userinfo and no path
OverrideAddress == <<"p","o","s","t","g","r","e","s",":","/","/","u",":","p","@","a",":","2">>
\* a key=value connection string
KvAddress == <<"h","o","s","t","=","k">>
\* a key=value connection string that url.Parse rejects (a colon in its first segment)
KvColonAddress == <<"k","=","a",":","b">>
\* a data source name the driver rejects in sql.Open
BadDSN == <<":">>
\* the empty string
Empty == <<>>

EnvValues == {Empty, EnvAddress}
\* what a caller passes to WithBaseAddress: the empty string, connection strings
\* the pgx driver takes (URL form, key=value form), and one sql.Open rejects
Addresses == {Empty, OverrideAddress, KvAddress, KvColonAddress, BadDSN}

\* sql.Open only validates its arguments: whether it fails is decided by the address
SqlOpenFails(address) == address = BadDSN

WithBaseAddress(address) == [kind |-> "baseAddress", val |-> address]
WithConnectFunction(f) == [kind |-> "connectFunction", val |-> f]
WithCreateDatabaseFunction(f) == [kind |-> "createDatabaseFunction", val |-> f]
WithDeleteDatabaseFunction(f) == [kind |-> "deleteDatabaseFunction", val |-> f]

\* the options a caller may pass; "custom" is a function of the caller's own
Options == {WithBaseAddress(a) : a \in Addresses}
           \cup {WithConnectFunction("custom")}
           \cup {WithCreateDatabaseFunction("custom")}
           \cup {WithDeleteDatabaseFunction(f) :
                    f \in {"nil", "ForceDeleteDatabaseFunction", "custom"}}

SeqsUpTo(S, n) == UNION {[1..k -> S] : k \in 0..n}

\* the option lists of a single test
OptionLists == SeqsUpTo(Options, MaxOpts)

\* the option lists of tests running in parallel
ParOptionLists == {<<>>, <<WithCreateDatabaseFunction("custom")>>}

NoOpts == [baseAddress |-> Empty, connectFunction |-> "unset",
           createDatabaseFunction |-> "unset", deleteDatabaseFunction |-> "unset"]

\* an Option applied to *opts
ApplyOption(o, opt) ==
    CASE opt.kind = "baseAddress" -> [o EXCEPT !.baseAddress = opt.val]
      [] opt.kind = "connectFunction" -> [o EXCEPT !.connectFunction = opt.val]
      [] opt.kind = "createDatabaseFunction" -> [o EXCEPT !.createDatabaseFunction = opt.val]
      [] opt.kind = "deleteDatabaseFunction" -> [o EXCEPT !.deleteDatabaseFunction = opt.val]

\* for _, opt := range opts { opt(defaultOpts) }
RECURSIVE ApplyOptions(_, _)
ApplyOptions(o, list) ==
    IF list = <<>> THEN o ELSE ApplyOptions(ApplyOption(o, Head(list)), Tail(list))

\* ResolveOptions with the environment variable taking precedence over the options
ResolveOptionsEnvFirst(getenv, list) ==
    LET defaultOpts == [baseAddress |-> Empty,
                        connectFunction |-> "DefaultConnectFunction",
                        createDatabaseFunction |-> "DefaultCreateDatabaseFunction",
                        deleteDatabaseFunction |-> "DefaultDeleteDatabaseFunction"]
        applied == ApplyOptions(defaultOpts, list)
    IN IF getenv # Empty THEN [applied EXCEPT !.baseAddress = getenv]
       ELSE IF applied.baseAddress = Empty
            THEN [applied EXCEPT !.baseAddress = DefaultAddress]
       ELSE applied

\* defaultOpts once NewPostgresTest has resolved it; getenv is os.Getenv's result
ResolveOptions(getenv, list) ==
    LET defaultOpts == [baseAddress |-> getenv,
                        connectFunction |-> "DefaultConnectFunction",
                        createDatabaseFunction |-> "DefaultCreateDatabaseFunction",
                        deleteDatabaseFunction |-> "DefaultDeleteDatabaseFunction"]
        applied == ApplyOptions(defaultOpts, list)
    IN IF applied.baseAddress = Empty
       THEN [applied EXCEPT !.baseAddress = DefaultAddress]
       ELSE applied

\* the function that opens the connections of NewPostgresTest and of its cleanup
ConnectVia(o) == "sql.Open"

\* the address the cleanup callback connects to
CleanupAddress(o) == o.baseAddress

\* a *sql.DB handle
OpenConn(o, address, purpose) ==
    [address |-> address, via |-> ConnectVia(o), purpose |-> purpose, open |-> TRUE]

\* (*sql.DB).Close on the handle opened last
CloseLast(cs) == [cs EXCEPT ![Len(cs)].open = FALSE]

----------------------------------------------------------------------------
(* createTestingDatabase's name *)

\* make([]byte, 8)
NameBytes == 8

\* the bytes rand.Read fills in, for each of its outcomes in this model
RandBytes(seed) == [k \in 1..NameBytes |-> (seed * k * 43) % 256]

\* what rand.Read does: an error, or random bytes
RandOutcomes == {[err |-> TRUE, b |-> << >>]}
                \cup {[err |-> FALSE, b |-> RandBytes(seed)] : seed \in 1..MaxSeeds}

NamePrefix == <<"t","e","s","t","i","n","g","_","d","b","_">>

\* strings.ToLower(fmt.Sprintf("testing_db_%x", b))
GenerateName(b) == ToLower(NamePrefix \o SprintfHex(b))

----------------------------------------------------------------------------
(* The base server and the create and delete behaviours *)

Exists(srv, name) == \E d \in srv : d.name = name
OwnerOf(srv, name) == IF Exists(srv, name) THEN (CHOOSE d \in srv : d.name = name).owner ELSE 0

\* a session is open on the database of this name
Busy(name) == \E u \in tests : sessions[u] /\ databaseName[u] = name

\* CreateBehaviour with the error of the statement dropped
CreateBehaviourIgnoringError(fn, srv, name, t, ok) ==
    [err |-> FALSE,
     server |-> IF ~ ok \/ Exists(srv, name) THEN srv
                ELSE srv \cup {[name |-> name, owner |-> t]}]

\* The create behaviour called with (db, name) by test t. ok: the statement reaches
\* the server and is executed (DefaultCreateDatabaseFunction), or the caller's
\* function returns nil ("custom", which leaves an existing database alone).
CreateBehaviour(fn, srv, name, t, ok) ==
    LET err == IF fn = "DefaultCreateDatabaseFunction" THEN ~ ok \/ Exists(srv, name)
               ELSE ~ ok
    IN [err |-> err,
        server |-> IF err \/ Exists(srv, name) THEN srv
                   ELSE srv \cup {[name |-> name, owner |-> t]}]

\* The delete behaviour called with (db, name). ok as above; DROP DATABASE fails on
\* a database with open sessions, DROP DATABASE ... WITH (FORCE) does not; drops:
\* whether the caller's own function removes the database.
DeleteBehaviour(fn, srv, name, busy, ok, drops) ==
    LET err == CASE fn = "DefaultDeleteDatabaseFunction" -> ~ ok \/ ~ Exists(srv, name) \/ busy
                 [] fn = "ForceDeleteDatabaseFunction" -> ~ ok \/ ~ Exists(srv, name)
                 [] OTHER -> ~ ok
        gone == IF fn = "custom" THEN drops ELSE ~ err
    IN [err |-> err,
        server |-> IF gone THEN {d \in srv : d.name # name} ELSE srv]

\* what a caller's own delete function may do to the database: remove it or not
CustomEffects(fn) == IF fn = "custom" THEN BOOLEAN ELSE {FALSE}

----------------------------------------------------------------------------
(* NewPostgresTest and the test around it *)

\* The framework after the test function, or a callback, has ended: it runs the
\* callbacks registered and not yet run ("teardown"), and then the test is over.
AfterTest(registered, run) == IF run < registered THEN "teardown" ELSE "done"

\* require.NoError(t, err) with err # nil: t.Errorf, then t.FailNow, which ends the
\* test function (or the callback) where it stands and hands over to the framework
FailNow(t, step) ==
    /\ failed' = [failed EXCEPT ![t] = TRUE]
    /\ haltedAt' = [haltedAt EXCEPT ![t] = @ \cup {step}]
    /\ pc' = [pc EXCEPT ![t] = AfterTest(cleanups'[t], cleanupRuns'[t])]

\* os.Setenv by the test process
SetEnv ==
    /\ \E v \in EnvValues \ {env} : env' = v
    /\ UNCHANGED <<tests, args, pc, opts, conns, databaseName, createCalls, deleteCalls,
                   cleanups, cleanupRuns, failed, haltedAt, result, sessions, server,
                   dropped, envRead>>
    /\ UNCHANGED avars

\* ConnectionString with the name appended to the path of the base address
ConnectionStringAppend(address, name) ==
    LET u == Parse(address)
    IN IF u.ok THEN [err |-> FALSE, str |-> String([u EXCEPT !.path = @ \o name])]
       ELSE [err |-> TRUE, str |-> << >>]

\* lines 135-138: the connection string, or the error of url.Parse
ConnectionString(address, name) ==
    LET u == Parse(address)
    IN IF u.ok THEN [err |-> FALSE, str |-> String([u EXCEPT !.path = name])]
       ELSE [err |-> TRUE, str |-> << >>]

\* Where a call of NewPostgresTest ends: at the require.NoError that fails first
\* (line 123 "connect", line 175 "rand", line 178 "create", line 136 "parse"),
\* or at its return statement.
EndOfCall(connectErr, randErr, createErr, parseErr) ==
    IF connectErr THEN "connect"
    ELSE IF randErr THEN "rand"
    ELSE IF createErr THEN "create"
    ELSE IF parseErr THEN "parse"
    ELSE "return"

\* line 177 was reached: the create behaviour was called
CreateCalled(end) == end \notin {"connect", "rand"}
\* line 125 was reached: globalDB.Close()
BaseClosed(end) == end \in {"parse", "return"}
\* CleanupRegistered with t.Cleanup called after url.Parse was checked
CleanupRegisteredAfterParse(end) == end = "return"
\* CleanupRegistered with t.Cleanup called before anything else
CleanupRegisteredFirst(end) == TRUE
\* line 126 was reached: t.Cleanup(...)
CleanupRegistered(end) == end \in {"parse", "return"}

\* NewPostgresTest, lines 103-139, with createTestingDatabase, lines 167-180
NewPostgresTest(t) ==
    /\ pc[t] = "call"
    /\ UNCHANGED <<env, tests, args, deleteCalls, cleanupRuns, sessions, dropped>>
    /\ UNCHANGED avars
    /\ \E read \in RandOutcomes, ok \in BOOLEAN :
       \E o \in {ResolveOptions(env, args[t])} :
       \E database \in {GenerateName(read.b)} :
       \E made \in {CreateBehaviour(o.createDatabaseFunction, server, database, t, ok)} :
       \E str \in {ConnectionString(o.baseAddress, database)} :
       \E end \in {EndOfCall(SqlOpenFails(o.baseAddress), read.err, made.err, str.err)} :
       \E globalDB \in {OpenConn(o, o.baseAddress, "create")} :
            /\ opts' = [opts EXCEPT ![t] = o]
            /\ envRead' = [envRead EXCEPT ![t] = env]
            /\ conns' = [conns EXCEPT ![t] =
                           IF end = "connect" THEN @
                           ELSE IF BaseClosed(end) THEN CloseLast(Append(@, globalDB))
                           ELSE Append(@, globalDB)]
            /\ createCalls' = [createCalls EXCEPT ![t] =
                                 IF CreateCalled(end) THEN Append(@, database) ELSE @]
            /\ server' = IF CreateCalled(end) THEN made.server ELSE server
            /\ databaseName' = [databaseName EXCEPT ![t] =
                                  IF CreateCalled(end) /\ ~ made.err THEN database ELSE @]
            /\ cleanups' = [cleanups EXCEPT ![t] = IF CleanupRegistered(end) THEN @ + 1 ELSE @]
            /\ IF end = "return"
               THEN /\ result' = [result EXCEPT ![t] = str.str]
                    /\ pc' = [pc EXCEPT ![t] = "body"]
                    /\ UNCHANGED <<failed, haltedAt>>
               ELSE /\ FailNow(t, end)
                    /\ UNCHANGED result

\* the rest of the test function: it passes or fails, and may leave a session
\* open on its database
TestBody(t) ==
    /\ pc[t] = "body"
    /\ \E passes \in BOOLEAN, leaves \in BOOLEAN :
         /\ failed' = [failed EXCEPT ![t] = ~ passes]
         /\ sessions' = [sessions EXCEPT ![t] = leaves]
    /\ pc' = [pc EXCEPT ![t] = AfterTest(cleanups[t], cleanupRuns[t])]
    /\ UNCHANGED <<env, tests, args, opts, conns, databaseName, createCalls, deleteCalls,
                   cleanups, cleanupRuns, haltedAt, result, server, dropped, envRead>>
    /\ UNCHANGED avars

\* EndOfCleanup with the error of the delete behaviour dropped
EndOfCleanupIgnoringError(deleteFunction, connectErr, deleteErr) ==
    IF deleteFunction = "nil" THEN "nil"
    ELSE IF connectErr THEN "cleanup connect"
    ELSE "return"

\* Where a run of the cleanup callback ends: at line 128 ("nil"), at a failing
\* require.NoError (line 131 "cleanup connect", line 189 "delete"), or at its end.
EndOfCleanup(deleteFunction, connectErr, deleteErr) ==
    IF deleteFunction = "nil" THEN "nil"
    ELSE IF connectErr THEN "cleanup connect"
    ELSE IF deleteErr THEN "delete"
    ELSE "return"

\* line 188 was reached: the delete behaviour was called
DeleteCalled(end) == end \in {"delete", "return"}
\* line 133 was reached: globalDB.Close()
CleanupClosed(end) == end = "return"

\* the name the callback passes to deleteDatabase
CleanupTarget(t) == databaseName[t]

\* the framework runs the callback registered at line 126: lines 127-133, with
\* deleteDatabase, lines 182-190
Cleanup(t) ==
    /\ pc[t] = "teardown"
    /\ cleanupRuns[t] < cleanups[t]
    /\ cleanupRuns' = [cleanupRuns EXCEPT ![t] = @ + 1]
    /\ UNCHANGED <<env, tests, args, opts, databaseName, createCalls, cleanups,
                   result, sessions, envRead>>
    /\ UNCHANGED avars
    /\ \E ok \in BOOLEAN, drops \in CustomEffects(opts[t].deleteDatabaseFunction) :
       \E o \in {opts[t]} :
       \E address \in {CleanupAddress(o)} :
       \E name \in {CleanupTarget(t)} :
       \E gone \in {DeleteBehaviour(o.deleteDatabaseFunction, server, name, Busy(name), ok, drops)} :
       \E end \in {EndOfCleanup(o.deleteDatabaseFunction, SqlOpenFails(address), gone.err)} :
       \E globalDB \in {OpenConn(o, address, "delete")} :
       \E after \in {IF DeleteCalled(end) THEN gone.server ELSE server} :
            /\ conns' = [conns EXCEPT ![t] =
                           IF end \in {"nil", "cleanup connect"} THEN @
                           ELSE IF CleanupClosed(end) THEN CloseLast(Append(@, globalDB))
                           ELSE Append(@, globalDB)]
            /\ deleteCalls' = [deleteCalls EXCEPT ![t] =
                                 IF DeleteCalled(end)
                                 THEN Append(@, [name |-> name, owner |-> OwnerOf(server, name)])
                                 ELSE @]
            /\ server' = after
            /\ dropped' = dropped \cup {[name |-> d.name, owner |-> d.owner, by |-> t] :
                                          d \in server \ after}
            /\ IF end \in {"nil", "return"}
               THEN /\ pc' = [pc EXCEPT ![t] = AfterTest(cleanups'[t], cleanupRuns'[t])]
                    /\ UNCHANGED <<failed, haltedAt>>
               ELSE FailNow(t, end)

AlterIdle ==
    /\ catalog = {}
    /\ seqValue = << >>
    /\ apc = "idle"
    /\ rows = << >>
    /\ sequences = << >>
    /\ restarts = << >>
    /\ afailed = FALSE
    /\ aerror = "none"

InitTests(ts, lists, envs) ==
    /\ tests = ts
    /\ args \in [ts -> lists]
    /\ env \in envs
    /\ pc = [t \in ts |-> "call"]
    /\ opts = [t \in ts |-> NoOpts]
    /\ envRead = [t \in ts |-> Empty]
    /\ conns = [t \in ts |-> << >>]
    /\ databaseName = [t \in ts |-> << >>]
    /\ createCalls = [t \in ts |-> << >>]
    /\ deleteCalls = [t \in ts |-> << >>]
    /\ cleanups = [t \in ts |-> 0]
    /\ cleanupRuns = [t \in ts |-> 0]
    /\ failed = [t \in ts |-> FALSE]
    /\ haltedAt = [t \in ts |-> {}]
    /\ result = [t \in ts |-> << >>]
    /\ sessions = [t \in ts |-> FALSE]
    /\ server = {}
    /\ dropped = {}

\* one test, any options
Init == InitTests({1}, OptionLists, EnvValues) /\ AlterIdle

Next ==
    \/ SetEnv
    \/ \E t \in tests : NewPostgresTest(t)
    \/ \E t \in tests : TestBody(t)
    \/ \E t \in tests : Cleanup(t)

Spec == Init /\ [][Next]_vars

\* tests running in parallel against one base server
InitPar == InitTests(1..NumTests, ParOptionLists, {Empty}) /\ AlterIdle

NextPar ==
    \/ \E t \in tests : NewPostgresTest(t)
    \/ \E t \in tests : TestBody(t)
    \/ \E t \in tests : Cleanup(t)

SpecPar == InitPar /\ [][NextPar]_vars

----------------------------------------------------------------------------
(* AlterTableSequences *)

\* mathrand.Intn(100000) returns a value in 0..99999
IntnBound == 100000
\* the offset added to it
RestartOffset == 100

\* the values of mathrand.Intn(100000) tried here: both ends and two inside
IntnDraws == {0, 1, IntnBound \div 2, IntnBound - 1}

\* mathrand.Intn(100000)+100
RestartValue(draw) == draw + RestartOffset

\* the sequences of a database, in every order
Orders(S) == {o \in [1..Cardinality(S) -> S] : \A i, j \in 1..Cardinality(S) : o[i] = o[j] => i = j}

\* a database whose sequences are at their initial value, and a call about to start
InitSeq ==
    /\ InitTests({}, {<< >>}, {Empty})
    /\ catalog \in SUBSET (1..MaxSeqs)
    /\ seqValue = [s \in catalog |-> 1]
    /\ apc = "query"
    /\ rows = << >>
    /\ sequences = << >>
    /\ restarts = << >>
    /\ afailed = FALSE
    /\ aerror = "none"

\* require.NoError(t, err) with err # nil in AlterTableSequences
AlterFailNow(what) ==
    /\ afailed' = TRUE
    /\ aerror' = what
    /\ apc' = "failed"

\* lines 151-153: db.Query on pg_class
ATS_Query ==
    /\ apc = "query"
    /\ \E err \in BOOLEAN, order \in Orders(catalog) :
         IF err
         THEN /\ AlterFailNow("query")
              /\ UNCHANGED rows
         ELSE /\ rows' = order
              /\ apc' = "rows"
              /\ UNCHANGED <<afailed, aerror>>
    /\ UNCHANGED <<catalog, seqValue, sequences, restarts>>
    /\ UNCHANGED pvars

\* lines 155-160: one rows.Next(), and the loop body when it returns true.
\* rows.Next() returns false at the last row and also when fetching a row fails;
\* the code goes on to line 161 in both cases, and rows.Err() is never consulted.
ATS_Next ==
    /\ apc = "rows"
    /\ IF rows = << >>
       THEN /\ apc' = "exec"
            /\ UNCHANGED <<rows, sequences, afailed, aerror>>
       ELSE \E what \in {"row", "scan error", "iteration error"} :
              CASE what = "row" ->
                     /\ sequences' = Append(sequences, Head(rows))
                     /\ rows' = Tail(rows)
                     /\ UNCHANGED <<apc, afailed, aerror>>
                [] what = "scan error" ->
                     /\ AlterFailNow("scan")
                     /\ UNCHANGED <<rows, sequences>>
                [] what = "iteration error" ->
                     /\ aerror' = "rows"
                     /\ rows' = << >>
                     /\ apc' = "exec"
                     /\ UNCHANGED <<sequences, afailed>>
    /\ UNCHANGED <<catalog, seqValue, restarts>>
    /\ UNCHANGED pvars

\* lines 161-164: one iteration of the loop over sequences, or its end
ATS_Exec ==
    /\ apc = "exec"
    /\ IF Len(restarts) = Len(sequences)
       THEN /\ apc' = "done"
            /\ UNCHANGED <<seqValue, restarts, afailed, aerror>>
       ELSE \E draw \in IntnDraws, err \in BOOLEAN :
              LET seq == sequences[Len(restarts) + 1]
                  value == RestartValue(draw)
              IN /\ restarts' = Append(restarts, [seq |-> seq, value |-> value, ok |-> ~ err])
                 /\ IF err
                    THEN /\ AlterFailNow("exec")
                         /\ UNCHANGED seqValue
                    ELSE /\ seqValue' = [seqValue EXCEPT ![seq] = value]
                         /\ UNCHANGED <<apc, afailed, aerror>>
    /\ UNCHANGED <<catalog, rows, sequences>>
    /\ UNCHANGED pvars

NextSeq == ATS_Query \/ ATS_Next \/ ATS_Exec

SpecSeq == InitSeq /\ [][NextSeq]_vars

----------------------------------------------------------------------------
(* Claims about NewPostgresTest, one test (Spec) *)

\* the create behaviour of t's invocation returned nil
CreateSucceeded(t) == databaseName[t] # << >>

DeleteConns(t) == {i \in DOMAIN conns[t] : conns[t][i].purpose = "delete"}

\* C1: when the create behaviour succeeded (also when url.Parse then fails the
\* test), exactly one cleanup is registered; the framework runs it exactly once,
\* never before the test function has ended, whether the test passed or failed;
\* it calls the configured delete behaviour exactly once, on the scratch
\* database; with a nil delete behaviour it opens no connection and calls nothing.
C1_TeardownOnce ==
    \A t \in tests :
      CreateSucceeded(t) =>
        /\ cleanups[t] = 1
        /\ cleanupRuns[t] <= 1
        /\ cleanupRuns[t] = 1 => pc[t] = "done"
        /\ pc[t] = "done" =>
             /\ cleanupRuns[t] = 1
             /\ IF opts[t].deleteDatabaseFunction = "nil"
                THEN deleteCalls[t] = << >> /\ DeleteConns(t) = {}
                ELSE /\ Len(deleteCalls[t]) = 1
                     /\ deleteCalls[t][1].name = databaseName[t]
                     /\ Cardinality(DeleteConns(t)) = 1

\* C1 witness: url.Parse failed the test after a successful create, and the
\* teardown still ran and called the delete behaviour once
C1_Witness ==
    \E t \in tests :
      /\ CreateSucceeded(t) /\ pc[t] = "done" /\ "parse" \in haltedAt[t]
      /\ cleanupRuns[t] = 1 /\ Len(deleteCalls[t]) = 1

MatchesNamePattern(name) ==
    /\ Len(name) = Len(NamePrefix) + 2 * NameBytes
    /\ SubSeq(name, 1, Len(NamePrefix)) = NamePrefix
    /\ \A i \in (Len(NamePrefix) + 1)..Len(name) : name[i] \in Range(HexDigits)

\* the path of a parsed URL without the slash that separates it from the host
PathName(u) == IF u.host # << >> /\ HasPrefix(u.path, <<"/">>) THEN Tail(u.path) ELSE u.path

C4_FailFast ==
    \A t \in tests :
      haltedAt[t] \cap {"connect", "rand", "create"} # {} =>
        /\ failed[t] /\ pc[t] = "done"
        /\ result[t] = << >>
        /\ Len(createCalls[t]) = (IF "create" \in haltedAt[t] THEN 1 ELSE 0)
        /\ cleanups[t] = 0 /\ cleanupRuns[t] = 0
        /\ deleteCalls[t] = << >> /\ DeleteConns(t) = {}

\* C4 witness: the create behaviour returned an error
C4_Witness ==
    \E t \in tests : "create" \in haltedAt[t] /\ Len(createCalls[t]) = 1 /\ pc[t] = "done"

\* C5: with WithConnectFunction, every connection of the invocation (for create
\* and for delete) is opened by the function supplied, with the resolved address
C5_ConnectFunctionUsed ==
    \A t \in tests : \A i \in DOMAIN conns[t] :
      /\ conns[t][i].address = opts[t].baseAddress
      /\ opts[t].connectFunction = "custom" => conns[t][i].via = "custom"

IsBaseAddress(opt) == opt.kind = "baseAddress"
\* the WithBaseAddress options among those of t, in order
Overrides(t) == SelectSeq(args[t], IsBaseAddress)
LastOverride(t) == Overrides(t)[Len(Overrides(t))].val

\* the resolved address is used wherever the invocation needs the base server
SameAddressEverywhere(t, address) ==
    /\ opts[t].baseAddress = address
    /\ \A i \in DOMAIN conns[t] : conns[t][i].address = address
    /\ result[t] # << >> => LET u == Parse(result[t])
                                base == Parse(address)
                            IN u.scheme = base.scheme /\ u.host = base.host /\ u.user = base.user

\* C6 as stated: the base address is the last WithBaseAddress override if one is
\* given, else TESTING_POSTGRES_TEST as read by the call, else the hardcoded
\* default; that address serves create, cleanup and the returned string
C6_Original ==
    \A t \in tests :
      pc[t] # "call" =>
        SameAddressEverywhere(t,
          IF Overrides(t) # << >> THEN LastOverride(t)
          ELSE IF envRead[t] # Empty THEN envRead[t]
          ELSE DefaultAddress)

\* C6 as amended: the base address is the last WithBaseAddress override if one is
\* given and it is not the empty string; with no override, TESTING_POSTGRES_TEST
\* as read by the call if it is not empty; in every other case (the last override
\* is the empty string, or there is no override and the variable is unset or
\* empty) the hardcoded default. The environment is used only when no override
\* is given. That address serves create, cleanup and the returned string.
C6_Precedence ==
    \A t \in tests :
      pc[t] # "call" =>
        SameAddressEverywhere(t,
          IF Overrides(t) # << >> /\ LastOverride(t) # Empty THEN LastOverride(t)
          ELSE IF Overrides(t) = << >> /\ envRead[t] # Empty THEN envRead[t]
          ELSE DefaultAddress)

\* C6 witness: two overrides were given while the environment variable was set,
\* the last one won, and the variable changed before the cleanup ran
C6_Witness ==
    \E t \in tests :
      /\ Len(Overrides(t)) = 2 /\ Overrides(t)[1].val # LastOverride(t)
      /\ envRead[t] = EnvAddress /\ env # envRead[t]
      /\ opts[t].baseAddress = LastOverride(t)
      /\ pc[t] = "done" /\ Len(conns[t]) = 2

\* C9: no connection opened for an invocation stays open: the one for create is
\* closed when NewPostgresTest is over, the one for delete when the cleanup is
\* over, also when the create or the delete behaviour returned an error
C9_NoConnectionLeftOpen ==
    \A t \in tests : \A i \in DOMAIN conns[t] :
      /\ (conns[t][i].purpose = "create" /\ pc[t] # "call") => ~ conns[t][i].open
      /\ pc[t] = "done" => ~ conns[t][i].open

----------------------------------------------------------------------------
(* Claims about parallel tests (SpecPar) *)

\* what C10 says of the invocations: a cleanup calls delete only on the name its
\* own invocation created, at most once; no database is dropped by a test other
\* than the one that created it, nor twice; a test whose create failed has no
\* cleanup
NoForeignDrop ==
    /\ \A t \in tests :
         /\ Len(deleteCalls[t]) <= 1
         /\ \A i \in DOMAIN deleteCalls[t] :
              /\ CreateSucceeded(t)
              /\ deleteCalls[t][i].name = databaseName[t]
              /\ deleteCalls[t][i].owner = t
         /\ "create" \in haltedAt[t] => cleanups[t] = 0
         /\ Cardinality({d \in dropped : d.owner = t}) <= 1
    /\ \A d \in dropped : d.by = d.owner

IsCreateOption(opt) == opt.kind = "createDatabaseFunction"
\* every test runs the default create behaviour, which fails on an existing name
AllDefaultCreate == \A t \in tests : SelectSeq(args[t], IsCreateOption) = << >>

----------------------------------------------------------------------------
(* Claims about AlterTableSequences (SpecSeq) *)

RestartsOf(s) == {i \in DOMAIN restarts : restarts[i].seq = s}

\* C7: when AlterTableSequences ends without failing the test, every sequence of
\* the catalog was sent exactly one restart statement, with a value in
\* 100..100099, and none still reports its initial value 1
C7_EverySequenceRestarted ==
    (apc = "done" /\ ~ afailed) =>
      \A s \in catalog :
        /\ Cardinality(RestartsOf(s)) = 1
        /\ \A i \in RestartsOf(s) : restarts[i].value \in 100..100099
        /\ seqValue[s] # 1

\* C8: any error of the catalog query (the query, a Scan, or an error that ends
\* the iteration early) or of a restart statement fails the test at once: no
\* step follows it, and the call does not end as a success
C8_ErrorsFailTheTest ==
    aerror # "none" =>
      /\ afailed /\ apc = "failed"
      /\ \A i \in DOMAIN restarts : ~ restarts[i].ok => i = Len(restarts)

====
